---- MODULE Spec2Model ----
(***************************************************************************)
(* State-machine model of mysuspend.c, the Android power-management        *)
(* example module: a wake lock, a PM notifier, an early-suspend observer   *)
(* and three self-rearming periodic activities (delayed work, timer,       *)
(* alarm), started by my_init and torn down by my_exit.                    *)
(*                                                                         *)
(* The module thread (insmod/rmmod) walks my_init and my_exit call by      *)
(* call; the handlers of the three activities and the observer callbacks   *)
(* run on host threads and interleave with it at every step.               *)
(*                                                                         *)
(* The host facilities the module calls (timers, workqueue, Android alarm, *)
(* notifier chain, early suspend, wake locks) are not part of the          *)
(* repository.  They are modelled at the call sites by their documented    *)
(* kernel contracts:                                                       *)
(*   - a callback of one item never runs re-entrantly;                     *)
(*   - mod_timer and alarm_start_range always (re)queue the item;          *)
(*   - schedule_delayed_work is a no-op while the work is pending, and     *)
(*     cancel_delayed_work_sync owns the pending bit while it waits;       *)
(*   - del_timer_sync, cancel_delayed_work_sync and alarm_cancel return    *)
(*     only when the item is neither queued nor running its callback.      *)
(***************************************************************************)
EXTENDS Naturals, Integers, Sequences, FiniteSets, TLC

VARIABLES
    phase,      \* module thread: "init", "running", "exit", "unloaded"
    idx,        \* index of the next call inside my_init / my_exit
    calls,      \* the calls the module thread has made so far, in order
    initRet,    \* value returned by my_init ("none" until it returns)
    wlk,        \* my_wake_lock
    pm,         \* my_pm_notifier registration
    es,         \* my_early_suspend registration
    armed,      \* per activity: a firing is queued in the host facility
    hpc,        \* per activity: position of its handler
    nexec,      \* per activity: handler executions in progress
    fired,      \* per activity: number of firings so far
    arms,       \* per activity: number of times it has been queued
    cancelling, \* per activity: "no", "sync" (stop in progress), "done"
    stopMid,    \* activities whose stop was called while the handler ran
    lateFire,   \* activities whose handler was entered while stop was waiting
    alarmInit,  \* alarm_init has run
    lines,      \* log lines emitted so far, per tag
    pmLast,     \* last event delivered to my_pm_handler and its outcome
    pmCalls,    \* events delivered to my_pm_handler so far
    esCalls,    \* early-suspend / late-resume events so far
    chain,      \* the host's list of early-suspend handlers, in level order
    esTrace,    \* the handlers the last early-suspend / late-resume event
                \* called, in the order of the calls
    now,        \* the host clock, in seconds
    expires     \* per activity: the time its queued firing is due

vars == <<phase, idx, calls, initRet, wlk, pm, es, armed, hpc, nexec, fired,
          arms, cancelling, stopMid, lateFire, alarmInit, lines, pmLast, pmCalls,
          esCalls, chain, esTrace, now, expires>>

coordVars == <<phase, idx, calls, initRet, wlk, pm, es>>
actVars   == <<armed, hpc, nexec, fired, arms, cancelling, stopMid, lateFire,
               alarmInit, now, expires>>
obsVars   == <<lines, pmLast, pmCalls, esCalls, chain, esTrace>>

(***************************************************************************)
(* Bounds                                                                  *)
(***************************************************************************)
MaxFire   == 3   \* firings, all activities together
MaxEvents == 2   \* observer events delivered
MaxTime   == 11  \* seconds of the clock that are observed

\* The counters of firings, armings and log lines are history of the run,
\* not state of the program: they stop counting at CountCap.
CountCap == MaxTime + 2

Inc(n) == IF n < CountCap THEN n + 1 ELSE n

(***************************************************************************)
(* Periods (lines 49, 81, 114), and their length on the clock in seconds.  *)
(***************************************************************************)
MSEC_PER_SEC == 1000

WORK_PERIOD_MS == 1 * MSEC_PER_SEC

TIMER_PERIOD_MS == 1 * MSEC_PER_SEC

ALARM_PERIOD_MS_short == 1 * MSEC_PER_SEC

ALARM_PERIOD_MS == 10 * MSEC_PER_SEC

Seconds(ms) == ms \div MSEC_PER_SEC

(***************************************************************************)
(* Names                                                                   *)
(***************************************************************************)
Acts == {"work", "timer", "alarm"}

HandlerTag(a) ==
    CASE a = "work"  -> "my_delayed_work_handler"
      [] a = "timer" -> "my_timer_handler"
      [] a = "alarm" -> "my_alarm_handler"

Tags == {"my_delayed_work_handler", "my_timer_handler", "my_alarm_handler",
         "suspend", "resume",
         "my_early_suspend_handler", "my_early_resume_handler"}

PMActions == {"PM_HIBERNATION_PREPARE", "PM_POST_HIBERNATION",
              "PM_SUSPEND_PREPARE", "PM_POST_SUSPEND",
              "PM_RESTORE_PREPARE", "PM_POST_RESTORE"}

NoEvent == [action |-> "none", ret |-> "none", line |-> "none"]

(***************************************************************************)
(* MY_DBG: one printk line carrying the given tag.                         *)
(***************************************************************************)
MY_DBG(l, tag) == [l EXCEPT ![tag] = Inc(@)]

(***************************************************************************)
(* my_init and my_exit: the calls they make, in program order.             *)
(***************************************************************************)
my_init_swapped ==
    << "my_wake_lock_start", "my_pm_notifier_start", "my_early_suspend_start",
       "my_timer_start", "my_delayed_work_start", "my_alarm_start" >>

my_init_late_lock ==
    << "my_pm_notifier_start", "my_early_suspend_start",
       "my_delayed_work_start", "my_wake_lock_start", "my_timer_start",
       "my_alarm_start" >>

my_init ==
    << "my_wake_lock_start", "my_pm_notifier_start", "my_early_suspend_start",
       "my_delayed_work_start", "my_timer_start", "my_alarm_start" >>

my_exit_early_unlock ==
    << "my_alarm_stop", "my_timer_stop", "my_wake_lock_stop",
       "my_delayed_work_stop", "my_pm_notifier_stop", "my_early_suspend_stop" >>

my_exit_swapped ==
    << "my_alarm_stop", "my_delayed_work_stop", "my_timer_stop",
       "my_pm_notifier_stop", "my_early_suspend_stop", "my_wake_lock_stop" >>

my_exit_no_timer_stop ==
    << "my_alarm_stop", "my_delayed_work_stop", "my_pm_notifier_stop",
       "my_early_suspend_stop", "my_wake_lock_stop" >>

my_exit ==
    << "my_alarm_stop", "my_timer_stop", "my_delayed_work_stop",
       "my_pm_notifier_stop", "my_early_suspend_stop", "my_wake_lock_stop" >>

CurStep ==
    IF phase = "init" /\ idx <= Len(my_init) THEN my_init[idx]
    ELSE IF phase = "exit" /\ idx <= Len(my_exit) THEN my_exit[idx]
    ELSE "none"

\* The module thread has finished the current call: move to the next one;
\* after the last call my_init returns 0 and my_exit returns.
Advance ==
    /\ calls' = Append(calls, CurStep)
    /\ IF phase = "init"
       THEN IF idx = Len(my_init)
            THEN /\ phase' = "running"
                 /\ idx' = 1
                 /\ initRet' = "0"
            ELSE /\ idx' = idx + 1
                 /\ UNCHANGED <<phase, initRet>>
       ELSE IF idx = Len(my_exit)
            THEN /\ phase' = "unloaded"
                 /\ idx' = 1
                 /\ UNCHANGED initRet
            ELSE /\ idx' = idx + 1
                 /\ UNCHANGED <<phase, initRet>>

(***************************************************************************)
(* Wake lock (lines 254-266).  misuse collects the calls made in a state   *)
(* the wake-lock interface does not allow.                                 *)
(***************************************************************************)
wake_lock_init(w) ==
    [w EXCEPT !.state = "inactive",
              !.misuse = IF w.state \in {"inactive", "active"}
                         THEN @ \cup {"init_twice"} ELSE @]

wake_lock(w) ==
    [w EXCEPT !.state = "active",
              !.acquires = @ + 1,
              !.misuse = IF w.state = "active" THEN @ \cup {"lock_while_held"}
                         ELSE IF w.state # "inactive"
                         THEN @ \cup {"lock_uninitialized"} ELSE @]

wake_unlock(w) ==
    [w EXCEPT !.state = IF w.state = "active" THEN "inactive" ELSE @,
              !.releases = @ + 1,
              !.misuse = IF w.state # "active"
                         THEN @ \cup {"unlock_not_held"} ELSE @]

wake_lock_destroy(w) ==
    [w EXCEPT !.state = "destroyed",
              !.misuse = IF w.state = "active" THEN @ \cup {"destroy_while_held"}
                         ELSE IF w.state # "inactive"
                         THEN @ \cup {"destroy_uninitialized"} ELSE @]

my_wake_lock_start_twice(w) == wake_lock(wake_lock(wake_lock_init(w)))

my_wake_lock_start(w) == wake_lock(wake_lock_init(w))

my_wake_lock_stop_no_unlock(w) == wake_lock_destroy(w)

my_wake_lock_stop(w) == wake_lock_destroy(wake_unlock(w))

run_my_wake_lock_start ==
    /\ CurStep = "my_wake_lock_start"
    /\ wlk' = my_wake_lock_start(wlk)
    /\ Advance
    /\ UNCHANGED <<pm, es, actVars, obsVars>>

run_my_wake_lock_stop ==
    /\ CurStep = "my_wake_lock_stop"
    /\ wlk' = my_wake_lock_stop(wlk)
    /\ Advance
    /\ UNCHANGED <<pm, es, actVars, obsVars>>

(***************************************************************************)
(* PM notifier (lines 155-184).                                            *)
(***************************************************************************)
my_pm_handler_all_ok(action) ==
    CASE action \in {"PM_HIBERNATION_PREPARE", "PM_SUSPEND_PREPARE"} ->
            [ret |-> "NOTIFY_OK", line |-> "suspend"]
      [] action \in {"PM_POST_HIBERNATION", "PM_POST_SUSPEND"} ->
            [ret |-> "NOTIFY_OK", line |-> "resume"]
      [] OTHER -> [ret |-> "NOTIFY_OK", line |-> "none"]

my_pm_handler(action) ==
    CASE action \in {"PM_HIBERNATION_PREPARE", "PM_SUSPEND_PREPARE"} ->
            [ret |-> "NOTIFY_OK", line |-> "suspend"]
      [] action \in {"PM_POST_HIBERNATION", "PM_POST_SUSPEND"} ->
            [ret |-> "NOTIFY_OK", line |-> "resume"]
      [] OTHER -> [ret |-> "NOTIFY_DONE", line |-> "none"]

\* register_pm_notifier returns ret; my_pm_notifier_start discards it.
run_my_pm_notifier_start(ret) ==
    /\ CurStep = "my_pm_notifier_start"
    /\ pm' = [pm EXCEPT !.registered = (ret = "0"),
                        !.regs = IF ret = "0" THEN @ + 1 ELSE @,
                        !.regRet = ret]
    /\ Advance
    /\ UNCHANGED <<wlk, es, actVars, obsVars>>

run_my_pm_notifier_stop_abort ==
    /\ CurStep = "my_pm_notifier_stop"
    /\ pm' = [pm EXCEPT !.registered = FALSE,
                        !.unregs = IF pm.registered THEN @ + 1 ELSE @,
                        !.unregRet = IF pm.registered THEN "0" ELSE "-ENOENT"]
    /\ calls' = Append(calls, CurStep)
    /\ IF pm.registered
       THEN idx' = idx + 1 /\ phase' = phase
       ELSE idx' = 1 /\ phase' = "unloaded"
    /\ UNCHANGED <<initRet, wlk, es, actVars, obsVars>>

\* unregister_pm_notifier returns -ENOENT for a block that is not on the
\* chain; my_pm_notifier_stop discards the value and emits nothing.
run_my_pm_notifier_stop ==
    /\ CurStep = "my_pm_notifier_stop"
    /\ pm' = [pm EXCEPT !.registered = FALSE,
                        !.unregs = IF pm.registered THEN @ + 1 ELSE @,
                        !.unregRet = IF pm.registered THEN "0" ELSE "-ENOENT"]
    /\ Advance
    /\ UNCHANGED <<wlk, es, actVars, obsVars>>

\* The host runs the PM notifier chain with one action value.
pm_notifier_call(action) ==
    /\ pm.registered
    /\ pmCalls + esCalls < MaxEvents
    /\ LET r == my_pm_handler(action) IN
         /\ lines' = IF r.line = "none" THEN lines ELSE MY_DBG(lines, r.line)
         /\ pmLast' = [action |-> action, ret |-> r.ret, line |-> r.line]
    /\ pmCalls' = pmCalls + 1
    /\ UNCHANGED <<coordVars, actVars, esCalls, chain, esTrace>>

(***************************************************************************)
(* Early suspend (lines 195-241).                                          *)
(***************************************************************************)
\* The levels the source names (lines 205-226), from low to high.
Levels == << "EARLY_SUSPEND_LEVEL_BLANK_SCREEN",
             "EARLY_SUSPEND_LEVEL_STOP_DRAWING",
             "EARLY_SUSPEND_LEVEL_DISABLE_FB" >>

Rank(l) == CHOOSE i \in 1..Len(Levels) : Levels[i] = l

\* Early-suspend handlers of other drivers of the system.
Others == {"other1", "other2"}

my_early_suspend_blank ==
    [who |-> "my_early_suspend", level |-> "EARLY_SUSPEND_LEVEL_BLANK_SCREEN"]

my_early_suspend ==
    [who |-> "my_early_suspend", level |-> "EARLY_SUSPEND_LEVEL_DISABLE_FB"]

Sorted(c) ==
    \A i \in 1..Len(c), j \in 1..Len(c) :
        i < j => Rank(c[i].level) <= Rank(c[j].level)

InsertAt(c, k, h) ==
    [i \in 1..(Len(c) + 1) |->
        IF i < k THEN c[i] ELSE IF i = k THEN h ELSE c[i - 1]]

\* register_early_suspend: the host keeps its list in level order.  The
\* order among handlers of one level is the host's choice.
register_early_suspend(c, h) ==
    { InsertAt(c, k, h) : k \in { n \in 1..(Len(c) + 1) :
                                       Sorted(InsertAt(c, n, h)) } }

\* unregister_early_suspend: the handler leaves the list.
unregister_early_suspend(c, who) == SelectSeq(c, LAMBDA h : h.who # who)

Reverse(c) == [i \in 1..Len(c) |-> c[Len(c) + 1 - i]]

\* The host calls a handler that registers while the system is suspended at
\* once.
run_my_early_suspend_start ==
    /\ CurStep = "my_early_suspend_start"
    /\ es' = [es EXCEPT !.registered = TRUE, !.regs = @ + 1]
    /\ chain' \in register_early_suspend(chain, my_early_suspend)
    /\ lines' = IF es.suspended
                THEN MY_DBG(lines, "my_early_suspend_handler") ELSE lines
    /\ Advance
    /\ UNCHANGED <<wlk, pm, actVars, pmLast, pmCalls, esCalls, esTrace>>

run_my_early_suspend_stop ==
    /\ CurStep = "my_early_suspend_stop"
    /\ es' = [es EXCEPT !.registered = FALSE,
                        !.unregs = IF es.registered THEN @ + 1 ELSE @]
    /\ chain' = unregister_early_suspend(chain, my_early_suspend.who)
    /\ Advance
    /\ UNCHANGED <<wlk, pm, actVars, lines, pmLast, pmCalls, esCalls, esTrace>>

\* Another driver registers its handler at one of the levels, or removes it.
register_other(o, l) ==
    /\ \A i \in 1..Len(chain) : chain[i].who # o
    /\ chain' \in register_early_suspend(chain, [who |-> o, level |-> l])
    /\ UNCHANGED <<coordVars, actVars, lines, pmLast, pmCalls, esCalls, esTrace>>

unregister_other(o) ==
    /\ \E i \in 1..Len(chain) : chain[i].who = o
    /\ chain' = unregister_early_suspend(chain, o)
    /\ UNCHANGED <<coordVars, actVars, lines, pmLast, pmCalls, esCalls, esTrace>>

\* The visible state goes to sleep: the host calls the suspend handlers of
\* its list from low to high; my_early_suspend_handler logs one line.
early_suspend ==
    /\ ~es.suspended
    /\ pmCalls + esCalls < MaxEvents
    /\ esTrace' = chain
    /\ lines' = IF es.registered
                THEN MY_DBG(lines, "my_early_suspend_handler") ELSE lines
    /\ es' = [es EXCEPT !.suspended = TRUE]
    /\ esCalls' = esCalls + 1
    /\ UNCHANGED <<phase, idx, calls, initRet, wlk, pm, actVars, pmLast,
                   pmCalls, chain>>

\* The visible state wakes up: the host calls the resume handlers of its
\* list from high to low; my_early_resume_handler logs one line.
late_resume ==
    /\ es.suspended
    /\ pmCalls + esCalls < MaxEvents
    /\ esTrace' = Reverse(chain)
    /\ lines' = IF es.registered
                THEN MY_DBG(lines, "my_early_resume_handler") ELSE lines
    /\ es' = [es EXCEPT !.suspended = FALSE]
    /\ esCalls' = esCalls + 1
    /\ UNCHANGED <<phase, idx, calls, initRet, wlk, pm, actVars, pmLast,
                   pmCalls, chain>>

\* An event that reaches this module's handler.
my_early_suspend_handler ==
    /\ es.registered
    /\ early_suspend

my_early_resume_handler ==
    /\ es.registered
    /\ late_resume

(***************************************************************************)
(* Periodic activities (lines 49-70, 81-101, 114-144).                     *)
(*                                                                         *)
(* hpc[a] = 0: the handler of a is not running; hpc[a] = k in 1..Len: it   *)
(* is about to execute its k-th statement; hpc[a] = Len + 1: it is about   *)
(* to return.                                                              *)
(***************************************************************************)

\* A schedule_delayed_work that ignored the pending bit.
my_delayed_work_start_always ==
    /\ armed' = [armed EXCEPT !["work"] = TRUE]
    /\ arms' = [arms EXCEPT !["work"] = Inc(@)]
    /\ expires' = [expires EXCEPT !["work"] = now + Seconds(WORK_PERIOD_MS)]

\* schedule_delayed_work: queues the work unless its pending bit is set.
\* The bit is set while the work is queued, and cancel_delayed_work_sync
\* holds it while it waits for a running handler.
my_delayed_work_start ==
    IF armed["work"] \/ cancelling["work"] = "sync"
    THEN UNCHANGED <<armed, arms, expires>>
    ELSE /\ armed' = [armed EXCEPT !["work"] = TRUE]
         /\ arms' = [arms EXCEPT !["work"] = Inc(@)]
         /\ expires' = [expires EXCEPT !["work"] = now + Seconds(WORK_PERIOD_MS)]

\* mod_timer: (re)queues the timer, due one period from now.
my_timer_start ==
    /\ armed' = [armed EXCEPT !["timer"] = TRUE]
    /\ arms' = [arms EXCEPT !["timer"] = Inc(@)]
    /\ expires' = [expires EXCEPT !["timer"] = now + Seconds(TIMER_PERIOD_MS)]

\* alarm_start_range: (re)queues the alarm, due one period from now.
my_alarm_shot ==
    /\ armed' = [armed EXCEPT !["alarm"] = TRUE]
    /\ arms' = [arms EXCEPT !["alarm"] = Inc(@)]
    /\ expires' = [expires EXCEPT !["alarm"] = now + Seconds(ALARM_PERIOD_MS)]

\* alarm_init, then the first shot.
my_alarm_start ==
    /\ alarmInit' = TRUE
    /\ my_alarm_shot

run_my_delayed_work_start ==
    /\ CurStep = "my_delayed_work_start"
    /\ my_delayed_work_start
    /\ Advance
    /\ UNCHANGED <<wlk, pm, es, hpc, nexec, fired, cancelling, stopMid,
                   lateFire, alarmInit, now, obsVars>>

run_my_timer_start ==
    /\ CurStep = "my_timer_start"
    /\ my_timer_start
    /\ Advance
    /\ UNCHANGED <<wlk, pm, es, hpc, nexec, fired, cancelling, stopMid,
                   lateFire, alarmInit, now, obsVars>>

run_my_alarm_start ==
    /\ CurStep = "my_alarm_start"
    /\ my_alarm_start
    /\ Advance
    /\ UNCHANGED <<wlk, pm, es, hpc, nexec, fired, cancelling, stopMid,
                   lateFire, now, obsVars>>

\* The statements of the three handlers, in program order.
my_delayed_work_handler_rearm_first == << "my_delayed_work_start", "MY_DBG" >>

my_delayed_work_handler == << "MY_DBG", "my_delayed_work_start" >>

my_timer_handler_no_rearm == << "MY_DBG" >>

my_timer_handler_arms_work == << "MY_DBG", "my_delayed_work_start" >>

my_timer_handler == << "MY_DBG", "my_timer_start" >>

my_alarm_handler == << "MY_DBG", "my_alarm_shot" >>

Handler(a) ==
    CASE a = "work"  -> my_delayed_work_handler
      [] a = "timer" -> my_timer_handler
      [] a = "alarm" -> my_alarm_handler

Running(a) == hpc[a] # 0

TotalFired == fired["work"] + fired["timer"] + fired["alarm"]

\* The host facility runs the callback of a queued item.  It takes the item
\* off its queue first and never runs one item's callback re-entrantly.
expire(a) ==
    /\ armed[a]
    /\ ~Running(a)
    /\ a = "alarm" => alarmInit
    /\ armed' = [armed EXCEPT ![a] = FALSE]
    /\ hpc' = [hpc EXCEPT ![a] = 1]
    /\ nexec' = [nexec EXCEPT ![a] = @ + 1]
    /\ fired' = [fired EXCEPT ![a] = Inc(@)]
    /\ lateFire' = IF cancelling[a] = "sync" THEN lateFire \cup {a} ELSE lateFire
    /\ UNCHANGED <<coordVars, arms, cancelling, stopMid, alarmInit, now, expires,
                   obsVars>>

fire_reentrant(a) ==
    /\ armed[a]
    /\ TotalFired < MaxFire
    /\ a = "alarm" => alarmInit
    /\ armed' = [armed EXCEPT ![a] = FALSE]
    /\ hpc' = [hpc EXCEPT ![a] = 1]
    /\ nexec' = [nexec EXCEPT ![a] = @ + 1]
    /\ fired' = [fired EXCEPT ![a] = Inc(@)]
    /\ lateFire' = IF cancelling[a] = "sync" THEN lateFire \cup {a} ELSE lateFire
    /\ UNCHANGED <<coordVars, arms, cancelling, stopMid, alarmInit, now, expires,
                   obsVars>>

fire_spontaneous(a) ==
    /\ ~Running(a)
    /\ TotalFired < MaxFire
    /\ armed' = [armed EXCEPT ![a] = FALSE]
    /\ hpc' = [hpc EXCEPT ![a] = 1]
    /\ nexec' = [nexec EXCEPT ![a] = @ + 1]
    /\ fired' = [fired EXCEPT ![a] = Inc(@)]
    /\ lateFire' = IF cancelling[a] = "sync" THEN lateFire \cup {a} ELSE lateFire
    /\ UNCHANGED <<coordVars, arms, cancelling, stopMid, alarmInit, now, expires,
                   obsVars>>

\* A firing at a moment the clock does not track: any queued item may expire.
fire(a) ==
    /\ TotalFired < MaxFire
    /\ expire(a)

\* A firing on the clock: the queued item expires when it is due.
fire_due(a) ==
    /\ expires[a] <= now
    /\ expire(a)

\* A second passes.  The host runs a due item before the clock moves on, and
\* a handler takes no measurable time.
tick ==
    /\ phase = "running"
    /\ now < MaxTime
    /\ \A a \in Acts : ~Running(a) /\ (armed[a] => expires[a] > now)
    /\ now' = now + 1
    /\ UNCHANGED <<coordVars, armed, hpc, nexec, fired, arms, cancelling,
                   stopMid, lateFire, alarmInit, expires, obsVars>>

\* The running handler of a executes its next statement.
handler_step(a) ==
    /\ hpc[a] \in 1..Len(Handler(a))
    /\ LET stmt == Handler(a)[hpc[a]] IN
         CASE stmt = "MY_DBG" ->
                /\ lines' = MY_DBG(lines, HandlerTag(a))
                /\ UNCHANGED <<armed, arms, expires>>
           [] stmt = "my_delayed_work_start" ->
                /\ my_delayed_work_start
                /\ UNCHANGED lines
           [] stmt = "my_timer_start" ->
                /\ my_timer_start
                /\ UNCHANGED lines
           [] stmt = "my_alarm_shot" ->
                /\ my_alarm_shot
                /\ UNCHANGED lines
    /\ hpc' = [hpc EXCEPT ![a] = @ + 1]
    /\ UNCHANGED <<coordVars, nexec, fired, cancelling, stopMid, lateFire,
                   alarmInit, now, pmLast, pmCalls, esCalls, chain, esTrace>>

\* The running handler of a returns.
handler_return(a) ==
    /\ hpc[a] = Len(Handler(a)) + 1
    /\ hpc' = [hpc EXCEPT ![a] = 0]
    /\ nexec' = [nexec EXCEPT ![a] = @ - 1]
    /\ UNCHANGED <<coordVars, armed, fired, arms, cancelling, stopMid,
                   lateFire, alarmInit, now, expires, obsVars>>

(***************************************************************************)
(* Synchronous cancel.  Each stop is a call that blocks: the first action  *)
(* is the call, the second the moment the host primitive returns.          *)
(***************************************************************************)

\* del_timer_sync retries while the timer's handler is running.
del_timer_nosync == TRUE

del_timer_waits_idle == ~Running("timer") /\ ~armed["timer"]

del_timer_sync == ~Running("timer")

\* cancel_delayed_work_sync waits for a running handler of the work.
cancel_delayed_work_nosync == TRUE

cancel_delayed_work_sync == ~Running("work")

\* alarm_cancel retries while the alarm's handler is running.
alarm_cancel_nosync == TRUE

alarm_cancel == ~Running("alarm")

StopReturns(a) ==
    CASE a = "work"  -> cancel_delayed_work_sync
      [] a = "timer" -> del_timer_sync
      [] a = "alarm" -> alarm_cancel

StopStep(a) ==
    CASE a = "work"  -> "my_delayed_work_stop"
      [] a = "timer" -> "my_timer_stop"
      [] a = "alarm" -> "my_alarm_stop"

\* my_exit calls the stop of a.  cancel_delayed_work_sync at once takes the
\* pending bit (dequeuing the work if it was queued); the other two only
\* start polling.
stop_call(a) ==
    /\ CurStep = StopStep(a)
    /\ cancelling[a] = "no"
    /\ cancelling' = [cancelling EXCEPT ![a] = "sync"]
    /\ stopMid' = IF Running(a) THEN stopMid \cup {a} ELSE stopMid
    /\ armed' = IF a = "work" THEN [armed EXCEPT ![a] = FALSE] ELSE armed
    /\ UNCHANGED <<coordVars, hpc, nexec, fired, arms, lateFire, alarmInit,
                   now, expires, obsVars>>

\* The host primitive finds the handler not running, dequeues the item
\* (for the work: releases the pending bit) and returns.
stop_return(a) ==
    /\ CurStep = StopStep(a)
    /\ cancelling[a] = "sync"
    /\ StopReturns(a)
    /\ cancelling' = [cancelling EXCEPT ![a] = "done"]
    /\ armed' = [armed EXCEPT ![a] = FALSE]
    /\ Advance
    /\ UNCHANGED <<wlk, pm, es, hpc, nexec, fired, arms, stopMid, lateFire,
                   alarmInit, now, expires, obsVars>>

(***************************************************************************)
(* Module load and unload.                                                 *)
(***************************************************************************)
\* rmmod: the host calls my_exit, once, after my_init has returned.
module_exit ==
    /\ phase = "running"
    /\ phase' = "exit"
    /\ idx' = 1
    /\ UNCHANGED <<calls, initRet, wlk, pm, es, actVars, obsVars>>

Init ==
    /\ phase = "init"
    /\ idx = 1
    /\ calls = << >>
    /\ initRet = "none"
    /\ wlk = [state |-> "uninit", acquires |-> 0, releases |-> 0, misuse |-> {}]
    /\ pm = [registered |-> FALSE, regs |-> 0, unregs |-> 0,
             regRet |-> "none", unregRet |-> "none"]
    /\ es = [registered |-> FALSE, regs |-> 0, unregs |-> 0, suspended |-> FALSE]
    /\ armed = [a \in Acts |-> FALSE]
    /\ hpc = [a \in Acts |-> 0]
    /\ nexec = [a \in Acts |-> 0]
    /\ fired = [a \in Acts |-> 0]
    /\ arms = [a \in Acts |-> 0]
    /\ cancelling = [a \in Acts |-> "no"]
    /\ stopMid = {}
    /\ lateFire = {}
    /\ alarmInit = FALSE
    /\ lines = [t \in Tags |-> 0]
    /\ pmLast = NoEvent
    /\ pmCalls = 0
    /\ esCalls = 0
    /\ chain = << >>
    /\ esTrace = << >>
    /\ now = 0
    /\ expires = [a \in Acts |-> 0]

Next ==
    \/ run_my_wake_lock_start
    \/ run_my_pm_notifier_start("0")
    \/ run_my_early_suspend_start
    \/ run_my_delayed_work_start
    \/ run_my_timer_start
    \/ run_my_alarm_start
    \/ module_exit
    \/ \E a \in Acts : stop_call(a)
    \/ \E a \in Acts : stop_return(a)
    \/ run_my_pm_notifier_stop
    \/ run_my_early_suspend_stop
    \/ run_my_wake_lock_stop
    \/ \E a \in Acts : fire(a)
    \/ \E a \in Acts : handler_step(a)
    \/ \E a \in Acts : handler_return(a)
    \/ \E action \in PMActions : pm_notifier_call(action)
    \/ my_early_suspend_handler
    \/ my_early_resume_handler

Spec == Init /\ [][Next]_vars

\* The same program when the host may refuse the PM-notifier registration.
NextFail ==
    \/ Next
    \/ run_my_pm_notifier_start("-ENOMEM")

SpecFail == Init /\ [][NextFail]_vars

\* The program on the clock: my_init at time 0, no rmmod, every queued item
\* fires when it is due.
NextTimed ==
    \/ run_my_wake_lock_start
    \/ run_my_pm_notifier_start("0")
    \/ run_my_early_suspend_start
    \/ run_my_delayed_work_start
    \/ run_my_timer_start
    \/ run_my_alarm_start
    \/ \E a \in Acts : fire_due(a)
    \/ \E a \in Acts : handler_step(a)
    \/ \E a \in Acts : handler_return(a)
    \/ tick

SpecTimed == Init /\ [][NextTimed]_vars

\* The program running for ever: no rmmod, no bound on the firings.  The
\* history counters start at their cap, so that they do not count.
InitLive ==
    /\ phase = "init"
    /\ idx = 1
    /\ calls = << >>
    /\ initRet = "none"
    /\ wlk = [state |-> "uninit", acquires |-> 0, releases |-> 0, misuse |-> {}]
    /\ pm = [registered |-> FALSE, regs |-> 0, unregs |-> 0,
             regRet |-> "none", unregRet |-> "none"]
    /\ es = [registered |-> FALSE, regs |-> 0, unregs |-> 0, suspended |-> FALSE]
    /\ armed = [a \in Acts |-> FALSE]
    /\ hpc = [a \in Acts |-> 0]
    /\ nexec = [a \in Acts |-> 0]
    /\ fired = [a \in Acts |-> CountCap]
    /\ arms = [a \in Acts |-> CountCap]
    /\ cancelling = [a \in Acts |-> "no"]
    /\ stopMid = {}
    /\ lateFire = {}
    /\ alarmInit = FALSE
    /\ lines = [t \in Tags |->
                  IF t \in {HandlerTag(a) : a \in Acts} THEN CountCap ELSE 0]
    /\ pmLast = NoEvent
    /\ pmCalls = 0
    /\ esCalls = 0
    /\ chain = << >>
    /\ esTrace = << >>
    /\ now = 0
    /\ expires = [a \in Acts |-> 0]

NextLive ==
    \/ run_my_wake_lock_start
    \/ run_my_pm_notifier_start("0")
    \/ run_my_early_suspend_start
    \/ run_my_delayed_work_start
    \/ run_my_timer_start
    \/ run_my_alarm_start
    \/ \E a \in Acts : expire(a)
    \/ \E a \in Acts : handler_step(a)
    \/ \E a \in Acts : handler_return(a)
    \/ \E action \in PMActions : pm_notifier_call(action)
    \/ my_early_suspend_handler
    \/ my_early_resume_handler

\* insmod runs my_init to its end; the host runs every queued item and lets
\* every running handler proceed.
FairInit ==
    /\ WF_vars(run_my_wake_lock_start)
    /\ WF_vars(run_my_pm_notifier_start("0"))
    /\ WF_vars(run_my_early_suspend_start)
    /\ WF_vars(run_my_delayed_work_start)
    /\ WF_vars(run_my_timer_start)
    /\ WF_vars(run_my_alarm_start)

FairHandlers ==
    \A a \in Acts : /\ WF_vars(handler_step(a))
                     /\ WF_vars(handler_return(a))

\* The module among other early-suspend handlers: the periodic activities
\* stay queued and do not fire.
NextVis ==
    \/ run_my_wake_lock_start
    \/ run_my_pm_notifier_start("0")
    \/ run_my_early_suspend_start
    \/ run_my_delayed_work_start
    \/ run_my_timer_start
    \/ run_my_alarm_start
    \/ module_exit
    \/ \E a \in Acts : stop_call(a)
    \/ \E a \in Acts : stop_return(a)
    \/ run_my_pm_notifier_stop
    \/ run_my_early_suspend_stop
    \/ run_my_wake_lock_stop
    \/ \E o \in Others, i \in 1..Len(Levels) : register_other(o, Levels[i])
    \/ \E o \in Others : unregister_other(o)
    \/ early_suspend
    \/ late_resume

SpecVis == Init /\ [][NextVis]_vars

SpecLive ==
    /\ InitLive
    /\ [][NextLive]_vars
    /\ FairInit
    /\ FairHandlers
    /\ \A a \in Acts : WF_vars(expire(a))

\* Load, any number of firings, and unload.
NextTeardown ==
    \/ run_my_wake_lock_start
    \/ run_my_pm_notifier_start("0")
    \/ run_my_early_suspend_start
    \/ run_my_delayed_work_start
    \/ run_my_timer_start
    \/ run_my_alarm_start
    \/ module_exit
    \/ \E a \in Acts : stop_call(a)
    \/ \E a \in Acts : stop_return(a)
    \/ run_my_pm_notifier_stop
    \/ run_my_early_suspend_stop
    \/ run_my_wake_lock_stop
    \/ \E a \in Acts : expire(a)
    \/ \E a \in Acts : handler_step(a)
    \/ \E a \in Acts : handler_return(a)

\* The thread in my_exit makes its calls.  A synchronous cancel polls
\* without pause while the item's next expiry is a period away, so it is
\* not always overtaken by the next firing.
FairExit ==
    /\ \A a \in Acts : WF_vars(stop_call(a))
    /\ \A a \in Acts : SF_vars(stop_return(a))
    /\ WF_vars(run_my_pm_notifier_stop)
    /\ WF_vars(run_my_early_suspend_stop)
    /\ WF_vars(run_my_wake_lock_stop)

SpecTeardown ==
    /\ InitLive
    /\ [][NextTeardown]_vars
    /\ FairInit
    /\ FairHandlers
    /\ FairExit

(***************************************************************************)
(* Properties                                                              *)
(***************************************************************************)
Stopped(a) == cancelling[a] = "done"

\* C1: once the stop of an activity has returned, the activity is neither
\* executing its handler nor armed, in that state and in every later one;
\* so a stop called while a firing is mid-execution does not return before
\* the handler has completed, although the handler re-arms the activity.
C1_SynchronousCancel ==
    \A a \in Acts :
        Stopped(a) => /\ ~armed[a]
                      /\ ~Running(a)
                      /\ nexec[a] = 0

\* C1 witness: all three stops have returned, each of them called while the
\* handler of its activity was running, and the timer's handler re-armed it.
C1_Witness ==
    /\ \A a \in Acts : Stopped(a)
    /\ stopMid = Acts
    /\ arms["timer"] >= 2

\* C2: the wake lock is acquired and both observers are registered before
\* any activity is armed for the first time; all three activities have been
\* stopped before an observer is unregistered or the wake lock released.
C2_OrderInvariant ==
    /\ (\E a \in Acts : arms[a] > 0 \/ armed[a]) =>
           /\ wlk.acquires >= 1
           /\ pm.regs >= 1
           /\ es.regs >= 1
    /\ (pm.unregs > 0 \/ es.unregs > 0 \/ wlk.releases > 0) =>
           \A a \in Acts : Stopped(a) /\ ~armed[a] /\ ~Running(a)

\* C2 witness: a complete lifecycle in which every activity was armed and
\* the observers and the wake lock were released.
C2_Witness ==
    /\ \A a \in Acts : arms[a] >= 1
    /\ pm.unregs = 1
    /\ es.unregs = 1
    /\ wlk.releases = 1

\* C3: whenever a handler of a periodic activity is executing, the wake lock
\* is held and not destroyed and both observers are registered.
C3_HandlerSeesResources ==
    \A a \in Acts :
        Running(a) => /\ wlk.state = "active"
                      /\ pm.registered
                      /\ es.registered

\* C3 witness: a handler is executing while my_exit has already stopped
\* another activity.
C3_Witness ==
    /\ Running("work")
    /\ Stopped("timer")
    /\ phase = "exit"

\* C4: the wake lock is acquired once per my_init and released once per
\* my_exit, is held exactly between the two, is never locked while held,
\* unlocked only while held and destroyed only when not held.
C4_WakeLockPairing ==
    /\ wlk.misuse = {}
    /\ wlk.acquires <= 1
    /\ wlk.releases <= wlk.acquires
    /\ (wlk.state = "active") <=> (wlk.acquires = wlk.releases + 1)
    /\ initRet = "0" => wlk.acquires = 1
    /\ phase = "running" => wlk.state = "active"
    /\ phase = "unloaded" => /\ wlk.releases = 1
                             /\ wlk.state = "destroyed"

\* C4 witness: the module has been unloaded after one acquire and one
\* release of the wake lock.
C4_Witness ==
    /\ phase = "unloaded"
    /\ wlk.acquires = 1
    /\ wlk.releases = 1
    /\ wlk.state = "destroyed"

\* C5: two executions of one activity's handler are never in progress at
\* once, and a handler that has re-armed its activity has already emitted
\* the log line of this firing.
C5_NoOverlap ==
    \A a \in Acts :
        /\ nexec[a] <= 1
        /\ (Running(a) /\ arms[a] > fired[a]) => lines[HandlerTag(a)] = fired[a]

\* C5 witness: the second firing of an activity has re-armed it and has not
\* returned yet.
C5_Witness ==
    \E a \in Acts :
        /\ fired[a] = 2
        /\ Running(a)
        /\ arms[a] = 3

\* C6 as claimed: my_init starts the timer before the delayed work.
C6_StartOrderAsClaimed ==
    initRet = "0" =>
        SubSeq(calls, 1, 6) =
            << "my_wake_lock_start", "my_pm_notifier_start",
               "my_early_suspend_start", "my_timer_start",
               "my_delayed_work_start", "my_alarm_start" >>

\* C6 (amended): my_init executes its steps in exactly this order: wake-lock
\* acquire, PM-notifier register, early-suspend register, then the start of
\* the delayed work, then of the timer, then of the alarm.
C6_StartOrder ==
    LET order == << "my_wake_lock_start", "my_pm_notifier_start",
                    "my_early_suspend_start", "my_delayed_work_start",
                    "my_timer_start", "my_alarm_start" >>
    IN  /\ phase = "init" => calls = SubSeq(order, 1, Len(calls))
        /\ initRet = "0" => SubSeq(calls, 1, 6) = order
        /\ pm.regs > 0 => wlk.acquires > 0
        /\ es.regs > 0 => pm.regs > 0
        /\ arms["work"] > 0 => es.regs > 0
        /\ arms["timer"] > 0 => arms["work"] > 0
        /\ arms["alarm"] > 0 => arms["timer"] > 0

\* C6 witness: my_init has returned with all six steps done.
C6_Witness ==
    /\ initRet = "0"
    /\ phase = "running"
    /\ Len(calls) = 6
    /\ \A a \in Acts : arms[a] >= 1

\* C7 as claimed: my_exit stops the alarm, the delayed work, the timer, then
\* unregisters the early-suspend observer, then the PM notifier, then
\* releases the wake lock: every component in the reverse of the order in
\* which my_init started it.
C7_StopOrderAsClaimed ==
    LET StopOf(n) ==
            CASE n = "my_wake_lock_start"     -> "my_wake_lock_stop"
              [] n = "my_pm_notifier_start"   -> "my_pm_notifier_stop"
              [] n = "my_early_suspend_start" -> "my_early_suspend_stop"
              [] n = "my_delayed_work_start"  -> "my_delayed_work_stop"
              [] n = "my_timer_start"         -> "my_timer_stop"
              [] n = "my_alarm_start"         -> "my_alarm_stop"
    IN  phase = "unloaded" =>
            /\ SubSeq(calls, 7, 12) =
                   << "my_alarm_stop", "my_delayed_work_stop", "my_timer_stop",
                      "my_early_suspend_stop", "my_pm_notifier_stop",
                      "my_wake_lock_stop" >>
            /\ \A i \in 1..6 : calls[6 + i] = StopOf(calls[7 - i])

\* C7 (amended): my_exit stops the alarm, then the timer, then the delayed
\* work (the reverse of the order my_init started them), then unregisters
\* the PM notifier, then the early-suspend observer (the order in which
\* my_init registered them, not its reverse), then releases and destroys the
\* wake lock.
C7_StopOrder ==
    LET order == << "my_alarm_stop", "my_timer_stop", "my_delayed_work_stop",
                    "my_pm_notifier_stop", "my_early_suspend_stop",
                    "my_wake_lock_stop" >>
    IN  /\ phase = "exit" =>
               SubSeq(calls, 7, Len(calls)) = SubSeq(order, 1, Len(calls) - 6)
        /\ phase = "unloaded" => SubSeq(calls, 7, 12) = order
        /\ Stopped("timer") => Stopped("alarm")
        /\ Stopped("work") => Stopped("timer")
        /\ pm.unregs > 0 => Stopped("work")
        /\ es.unregs > 0 => pm.unregs > 0
        /\ wlk.releases > 0 => es.unregs > 0

\* C7 witness: my_exit has returned with all six teardown steps done.
C7_Witness ==
    /\ phase = "unloaded"
    /\ Len(calls) = 12
    /\ \A a \in Acts : Stopped(a)
    /\ wlk.state = "destroyed"

\* C8: for an event of the PrepareSleep class my_pm_handler logs one
\* "suspend" line and returns NOTIFY_OK, for one of the PostWake class it
\* logs one "resume" line and returns NOTIFY_OK, for any other event it logs
\* nothing and returns NOTIFY_DONE; it never changes coordinator state.
C8_PmHandler ==
    [][ pmCalls' = pmCalls + 1 =>
          /\ pmLast'.action \in {"PM_SUSPEND_PREPARE", "PM_HIBERNATION_PREPARE"} =>
                 /\ pmLast'.ret = "NOTIFY_OK"
                 /\ lines' = [lines EXCEPT !["suspend"] = @ + 1]
          /\ pmLast'.action \in {"PM_POST_SUSPEND", "PM_POST_HIBERNATION"} =>
                 /\ pmLast'.ret = "NOTIFY_OK"
                 /\ lines' = [lines EXCEPT !["resume"] = @ + 1]
          /\ pmLast'.action \notin {"PM_SUSPEND_PREPARE", "PM_HIBERNATION_PREPARE",
                                    "PM_POST_SUSPEND", "PM_POST_HIBERNATION"} =>
                 /\ pmLast'.ret = "NOTIFY_DONE"
                 /\ lines' = lines
          /\ UNCHANGED <<coordVars, actVars>>
      ]_vars

\* C8 witness: a PrepareSleep event was handled and logged, then an
\* unrelated event was acknowledged as not handled.
C8_Witness ==
    /\ pmCalls = 2
    /\ lines["suspend"] = 1
    /\ pmLast.action = "PM_RESTORE_PREPARE"
    /\ pmLast.ret = "NOTIFY_DONE"

\* C9: if a registration step of my_init fails, my_init executes no later
\* step, leaves no activity armed and the wake lock not held, and reports
\* the failure as its result.
C9_StartupFailureHandled ==
    pm.regRet = "-ENOMEM" =>
        /\ es.regs = 0
        /\ \A a \in Acts : arms[a] = 0 /\ ~armed[a]
        /\ initRet # "0"
        /\ phase # "init" => wlk.state # "active"

C11_ImmediateStop ==
    /\ []((phase = "unloaded" /\ TotalFired = 0) =>
              /\ wlk.acquires = 1
              /\ wlk.releases = 1
              /\ pm.regs = 1
              /\ pm.unregs = 1
              /\ es.regs = 1
              /\ es.unregs = 1
              /\ \A a \in Acts : /\ lines[HandlerTag(a)] = 0
                                 /\ ~armed[a]
                                 /\ ~Running(a))
    /\ [][ phase = "unloaded" =>
               /\ fired' = fired
               /\ \A a \in Acts : lines'[HandlerTag(a)] = lines[HandlerTag(a)]
       ]_vars

\* C11 witness: my_exit has returned and no activity has ever fired.
C11_Witness ==
    /\ phase = "unloaded"
    /\ TotalFired = 0
    /\ \A a \in Acts : arms[a] = 1
    /\ wlk.releases = 1

\* Every firing that is due at the current second has run to completion.
Quiet ==
    /\ phase = "running"
    /\ \A a \in Acts : ~Running(a) /\ (armed[a] => expires[a] > now)

\* C12 as claimed: 11 seconds after my_init the timer has fired 11 times,
\* the delayed work 11 times and the alarm 2 times, one log line each.
C12_WindowCountsAsClaimed ==
    (now = 11 /\ Quiet) =>
        /\ fired["timer"] = 11
        /\ fired["work"] = 11
        /\ fired["alarm"] = 2
        /\ \A a \in Acts : lines[HandlerTag(a)] = fired[a]

\* C12 (amended): on a clock in seconds, with each arming due at the time of
\* arming plus the period, t seconds after my_init the timer has fired t
\* times, the delayed work t times and the alarm t div 10 times, one log
\* line per firing: after 11 seconds 11, 11 and 1 (the alarm fires at 10 s
\* and has then been armed twice, its second expiry being due at 20 s).
C12_WindowCounts ==
    Quiet =>
        /\ fired["timer"] = now
        /\ fired["work"] = now
        /\ fired["alarm"] = now \div 10
        /\ arms["alarm"] = 1 + now \div 10
        /\ \A a \in Acts : lines[HandlerTag(a)] = fired[a]
        /\ now = 11 => /\ fired["timer"] = 11
                       /\ fired["work"] = 11
                       /\ fired["alarm"] = 1

\* C12 witness: the end of the 11-second window, all due firings done.
C12_Witness ==
    /\ now = 11
    /\ Quiet
    /\ fired["timer"] = 11
    /\ fired["alarm"] = 1
    /\ arms["alarm"] = 2
    /\ lines["my_delayed_work_handler"] = 11

\* C13: when my_init has completed and my_exit is never called, each of
\* the three activities fires infinitely often under fair scheduling, and
\* every firing that completes leaves its activity armed again.
C13_FiresForever ==
    /\ \A a \in Acts : []<>(hpc[a] = 1) /\ []<>(hpc[a] = 0)
    /\ [][ \A a \in Acts : (hpc[a] # 0 /\ hpc'[a] = 0) => armed'[a] ]_vars

\* C13 witness: my_init has returned and each activity is at the end of a
\* firing, armed again.
C13_Witness ==
    /\ initRet = "0"
    /\ phase = "running"
    /\ \A a \in Acts : hpc[a] = Len(Handler(a)) + 1 /\ armed[a]

\* Number of queued firings of an activity: the host keeps one queue entry
\* per timer, work item or alarm.
Pending(a) == IF armed[a] THEN 1 ELSE 0

\* C14 as stated: for each activity the queued firings plus the handler
\* executions in progress are at most 1 in every reachable state, the window
\* between the handler's re-arm and its return included.
C14_AtMostOneAsClaimed ==
    \A a \in Acts : Pending(a) + nexec[a] <= 1

\* C14 as the code has it: at most one firing is queued and at most one
\* handler execution is in progress; both at once only in the window
\* after the running handler's re-arm (its last statement) and before its
\* return, where the sum is 2.
C14_AtMostOne ==
    \A a \in Acts :
        /\ Pending(a) <= 1
        /\ nexec[a] <= 1
        /\ nexec[a] = (IF Running(a) THEN 1 ELSE 0)
        /\ (armed[a] /\ Running(a)) => hpc[a] = Len(Handler(a)) + 1

\* C14 witness: a handler has re-armed its activity and has not yet returned.
C14_Witness ==
    \E a \in Acts : /\ armed[a]
                    /\ nexec[a] = 1
                    /\ hpc[a] = Len(Handler(a)) + 1
                    /\ cancelling[a] = "no"

\* C15 as stated: once the stop of an activity has begun, no handler of
\* that activity creates a new pending firing (the re-arm is a no-op).
C15_NoRearmAsClaimed ==
    [][ \A a \in Acts :
          cancelling[a] = "sync" => (armed'[a] => armed[a]) ]_vars

\* C15 as the code has it: only the delayed work's re-arm is a no-op while
\* its stop is in progress.  The handlers of the timer and of the alarm
\* re-arm unconditionally, also during their stop, which creates a pending
\* firing; the stop removes it before it returns.
C15_RearmDuringStop ==
    /\ [](cancelling["work"] = "sync" => ~armed["work"])
    /\ [][ \A a \in {"timer", "alarm"} :
             (/\ cancelling[a] = "sync"
              /\ hpc[a] = Len(Handler(a))
              /\ hpc'[a] = Len(Handler(a)) + 1) => armed'[a] ]_vars
    /\ [](\A a \in Acts : Stopped(a) => ~armed[a] /\ ~Running(a))

\* C15 witness: the timer fired and re-armed while its stop was waiting and
\* was then stopped; the work's handler, running when its stop began, has
\* passed its re-arm and the work is not queued.
C15_Witness ==
    /\ "timer" \in lateFire
    /\ arms["timer"] = 2
    /\ Stopped("timer")
    /\ ~armed["timer"]
    /\ cancelling["work"] = "sync"
    /\ "work" \in stopMid
    /\ hpc["work"] = Len(Handler("work")) + 1
    /\ ~armed["work"]

\* A step of a firing of a: the host enters a's handler, the handler
\* executes a statement, or the handler returns.
FiringStep(a) == hpc'[a] # hpc[a]

\* A step that is a call of my_pm_handler, my_early_suspend_handler or
\* my_early_resume_handler.
ObserverStep == pmCalls' # pmCalls \/ esCalls' # esCalls

\* C16: a firing of one activity changes only that activity's own armed and
\* executing state and leaves the other two activities, the wake lock's held
\* flag and both registered flags unchanged; an observer callback leaves
\* every activity's state, the wake lock and the registrations unchanged.
C16_Frame ==
    [][ /\ \A a \in Acts :
             FiringStep(a) =>
                /\ \A b \in Acts \ {a} :
                      /\ armed'[b] = armed[b]
                      /\ hpc'[b] = hpc[b]
                      /\ nexec'[b] = nexec[b]
                      /\ fired'[b] = fired[b]
                      /\ arms'[b] = arms[b]
                      /\ expires'[b] = expires[b]
                      /\ cancelling'[b] = cancelling[b]
                /\ wlk'.state = wlk.state
                /\ pm'.registered = pm.registered
                /\ es'.registered = es.registered
        /\ ObserverStep =>
                /\ UNCHANGED <<armed, hpc, nexec, fired, arms, expires,
                               cancelling, alarmInit>>
                /\ UNCHANGED wlk
                /\ pm'.registered = pm.registered
                /\ es'.registered = es.registered ]_vars

\* C16 witness: the timer has fired and re-armed, my_pm_handler and
\* my_early_suspend_handler have run, the other two activities are still
\* queued, the wake lock is held and both observers are registered.
C16_Witness ==
    /\ fired["timer"] = 1
    /\ arms["timer"] = 2
    /\ pmCalls >= 1
    /\ pmLast # NoEvent
    /\ esCalls >= 1
    /\ lines["my_early_suspend_handler"] >= 1
    /\ armed["work"] /\ fired["work"] = 0
    /\ armed["alarm"] /\ fired["alarm"] = 0
    /\ wlk.state = "active"
    /\ pm.registered
    /\ es.registered

\* The positions of this module's handler in a sequence of handlers.
MyPos(t) == { i \in 1..Len(t) : t[i].who = my_early_suspend.who }

\* C17 as stated: on a suspend event this module's handler, registered at
\* the DISABLE_FB level, is called last among all registered handlers, and
\* on a resume event first among them.
C17_LastFirstAsClaimed ==
    \A i \in MyPos(esTrace) :
        IF es.suspended THEN i = Len(esTrace) ELSE i = 1

\* C17 as the code has it: on a suspend event this module's handler is
\* called after every handler registered at a level below DISABLE_FB, and on
\* a resume event before every such handler; it is last (first) among all
\* when no other handler is registered at the DISABLE_FB level.  Its order
\* relative to another handler of the DISABLE_FB level is the host's choice.
C17_LevelOrder ==
    \A i \in MyPos(esTrace) :
        /\ esTrace[i].level = "EARLY_SUSPEND_LEVEL_DISABLE_FB"
        /\ \A j \in 1..Len(esTrace) :
              Rank(esTrace[j].level) < Rank("EARLY_SUSPEND_LEVEL_DISABLE_FB")
                 => IF es.suspended THEN j < i ELSE j > i
        /\ (\A j \in 1..Len(esTrace) \ {i} :
               esTrace[j].level # "EARLY_SUSPEND_LEVEL_DISABLE_FB")
              => IF es.suspended THEN i = Len(esTrace) ELSE i = 1

\* C17 witness: a suspend event called a handler of a lower level, then this
\* module's handler, then another handler of the DISABLE_FB level.
C17_Witness ==
    /\ es.suspended
    /\ Len(esTrace) = 3
    /\ Rank(esTrace[1].level) < Rank("EARLY_SUSPEND_LEVEL_DISABLE_FB")
    /\ esTrace[2] = my_early_suspend
    /\ esTrace[3].level = "EARLY_SUSPEND_LEVEL_DISABLE_FB"
    /\ lines["my_early_suspend_handler"] = 1

\* C18: every call of my_exit made after my_init has completed eventually
\* returns, whatever firings are in flight or re-arm themselves meanwhile;
\* on return no activity is armed or executing, neither observer is
\* registered, and the wake lock is released and destroyed.
C18_TeardownTerminates ==
    /\ (phase = "exit") ~> (phase = "unloaded")
    /\ [](phase = "unloaded" =>
            /\ \A a \in Acts : ~armed[a] /\ ~Running(a) /\ nexec[a] = 0
            /\ ~pm.registered
            /\ ~es.registered
            /\ wlk.state = "destroyed"
            /\ wlk.releases = 1
            /\ wlk.misuse = {})

\* C18 witness: my_exit has returned although the timer and the alarm fired
\* while their stops were waiting and the work's handler was running when
\* its stop began.
C18_Witness ==
    /\ phase = "unloaded"
    /\ calls = my_init \o my_exit
    /\ {"timer", "alarm"} \subseteq lateFire
    /\ "work" \in stopMid

\* The call of my_init that starts an activity.
StartStep(a) ==
    CASE a = "work"  -> "my_delayed_work_start"
      [] a = "timer" -> "my_timer_start"
      [] a = "alarm" -> "my_alarm_start"

Called(step) == \E i \in 1..Len(calls) : calls[i] = step

\* C19: a handler executes only as the consumption of a prior arming of its
\* own activity: no activity fires before my_init has called its start (the
\* alarm never before alarm_init), and the firings of an activity, with the
\* one still queued, never exceed the number of times it has been armed.
C19_NoSpontaneousFiring ==
    \A a \in Acts :
        /\ fired[a] + Pending(a) <= arms[a]
        /\ (fired[a] > 0 \/ Running(a)) => Called(StartStep(a))
        /\ (a = "alarm" /\ (fired[a] > 0 \/ Running(a))) => alarmInit
        /\ lines[HandlerTag(a)] <= fired[a]

\* C19 witness: each activity has fired once, on its first arming, and has
\* been armed again by its handler.
C19_Witness ==
    \A a \in Acts : /\ fired[a] = 1
                    /\ arms[a] = 2
                    /\ Called(StartStep(a))
                    /\ lines[HandlerTag(a)] = 1

====
